---------------------------- MODULE Spec2Model ----------------------------
(***************************************************************************)
(* A model of wapi-zone (src/main.py): the zone-file parser, the           *)
(* normalisation of remote rows and the reconciliation run                 *)
(* sync_zone_records against a DNS provider reached through call_wapi.     *)
(*                                                                         *)
(* Python strings are sequences of one-character strings, so that strip,   *)
(* rstrip, split and str() are computed and not assumed.  JSON values are  *)
(* tagged records, so that isinstance, truthiness and .get() are computed. *)
(***************************************************************************)
EXTENDS Integers, Sequences, FiniteSets, TLC

(***************************************************************************)
(* Python str operations                                                   *)
(***************************************************************************)

\* str.isspace() for the characters a zone file holds
IsSpace(c) == c \in {" ", "\t", "\n", "\r"}

LowerChars == <<"a","b","c","d","e","f","g","h","i","j","k","l","m",
                "n","o","p","q","r","s","t","u","v","w","x","y","z">>

UpperChars == <<"A","B","C","D","E","F","G","H","I","J","K","L","M",
                "N","O","P","Q","R","S","T","U","V","W","X","Y","Z">>

DigitChars == <<"0","1","2","3","4","5","6","7","8","9">>

\* the code point of a character (ASCII), the order sorted() compares by
Code(c) ==
    IF \E i \in 1..26 : LowerChars[i] = c
      THEN 96 + (CHOOSE i \in 1..26 : LowerChars[i] = c)
    ELSE IF \E i \in 1..26 : UpperChars[i] = c
      THEN 64 + (CHOOSE i \in 1..26 : UpperChars[i] = c)
    ELSE IF \E i \in 1..10 : DigitChars[i] = c
      THEN 47 + (CHOOSE i \in 1..10 : DigitChars[i] = c)
    ELSE CASE c = "\t" -> 9
           [] c = "\n" -> 10
           [] c = "\r" -> 13
           [] c = " "  -> 32
           [] c = "$"  -> 36
           [] c = "*"  -> 42
           [] c = "-"  -> 45
           [] c = "."  -> 46
           [] c = ";"  -> 59
           [] c = "@"  -> 64
           [] c = "_"  -> 95

\* str.upper() on one character
UpperChar(c) ==
    IF \E i \in 1..26 : LowerChars[i] = c
      THEN UpperChars[CHOOSE i \in 1..26 : LowerChars[i] = c]
      ELSE c

\* s.upper()
Upper(s) == [i \in 1..Len(s) |-> UpperChar(s[i])]

\* s.startswith(p)
StartsWith(s, p) == Len(p) <= Len(s) /\ SubSeq(s, 1, Len(p)) = p

\* s.endswith(p)
EndsWith(s, p) ==
    Len(p) <= Len(s) /\ SubSeq(s, Len(s) - Len(p) + 1, Len(s)) = p

\* s.rstrip(c): every trailing c is removed
RECURSIVE RStripChar(_, _)
RStripChar(s, c) ==
    IF s # <<>> /\ s[Len(s)] = c
      THEN RStripChar(SubSeq(s, 1, Len(s) - 1), c)
      ELSE s

RECURSIVE LStripSpace(_)
LStripSpace(s) ==
    IF s # <<>> /\ IsSpace(s[1]) THEN LStripSpace(Tail(s)) ELSE s

RECURSIVE RStripSpace(_)
RStripSpace(s) ==
    IF s # <<>> /\ IsSpace(s[Len(s)])
      THEN RStripSpace(SubSeq(s, 1, Len(s) - 1))
      ELSE s

\* s.strip()
Strip(s) == LStripSpace(RStripSpace(s))

\* s.split(): the maximal runs of non-whitespace characters
RECURSIVE SplitFrom(_, _, _)
SplitFrom(s, cur, acc) ==
    IF s = <<>>
      THEN IF cur = <<>> THEN acc ELSE Append(acc, cur)
    ELSE IF IsSpace(s[1])
      THEN SplitFrom(Tail(s), <<>>,
                     IF cur = <<>> THEN acc ELSE Append(acc, cur))
    ELSE SplitFrom(Tail(s), Append(cur, s[1]), acc)

Split(s) == SplitFrom(s, <<>>, <<>>)

\* " ".join(parts)
RECURSIVE JoinSpace(_)
JoinSpace(parts) ==
    IF parts = <<>> THEN <<>>
    ELSE IF Len(parts) = 1 THEN parts[1]
    ELSE parts[1] \o <<" ">> \o JoinSpace(Tail(parts))

\* s < t, the order of Python strings (by code point, a prefix first)
RECURSIVE StrLess(_, _)
StrLess(s, t) ==
    IF t = <<>> THEN FALSE
    ELSE IF s = <<>> THEN TRUE
    ELSE IF s[1] = t[1] THEN StrLess(Tail(s), Tail(t))
    ELSE Code(s[1]) < Code(t[1])

\* str(n) for an integer n >= 0
RECURSIVE DecimalDigits(_)
DecimalDigits(n) ==
    IF n < 10 THEN <<DigitChars[n + 1]>>
    ELSE Append(DecimalDigits(n \div 10), DigitChars[(n % 10) + 1])

(***************************************************************************)
(* parse_zone_file                                                         *)
(***************************************************************************)

s_ORIGIN == <<"$","O","R","I","G","I","N">>
s_TTL    == <<"$","T","T","L">>
s_IN     == <<"I","N">>
s_at     == <<"@">>

\* a record name that is only stripped of its dots, whatever the origin
NormalizeNameBare(raw_name, origin) ==
    IF raw_name = s_at THEN s_at
    ELSE IF EndsWith(raw_name, <<".">>) THEN RStripChar(raw_name, ".")
    ELSE raw_name

\* lines 103-115: the record name relative to the working origin
NormalizeName(raw_name, origin) ==
    IF raw_name = s_at THEN s_at
    ELSE IF EndsWith(raw_name, <<".">>)
      THEN LET bare == RStripChar(raw_name, ".")
           IN  IF bare = origin THEN s_at
               ELSE IF EndsWith(bare, <<".">> \o origin)
                 THEN SubSeq(bare, 1, Len(bare) - (Len(origin) + 1))
               ELSE bare
    ELSE raw_name

\* lines 80-117: one line of the file, applied to the parser's state
\* st = [origin, records]
ParseLine(st, rawline) ==
    LET line  == Strip(rawline)
        parts == Split(line)
    IN  IF line = <<>> \/ StartsWith(line, <<";">>) THEN st
        ELSE IF StartsWith(Upper(line), s_ORIGIN)
          THEN IF Len(parts) >= 2
                 THEN [st EXCEPT !.origin = RStripChar(parts[2], ".")]
                 ELSE st
        ELSE IF StartsWith(Upper(line), s_TTL) THEN st
        ELSE IF Len(parts) < 5 \/ Upper(parts[3]) # s_IN THEN st
        ELSE LET rdata == RStripChar(JoinSpace(SubSeq(parts, 5, Len(parts))), ".")
                 name  == NormalizeName(parts[1], st.origin)
             IN  [st EXCEPT !.records =
                     Append(@, <<name, parts[2], parts[4], rdata>>)]

RECURSIVE ParseLines(_, _)
ParseLines(st, lines) ==
    IF lines = <<>> THEN st
    ELSE ParseLines(ParseLine(st, Head(lines)), Tail(lines))

\* parse_zone_file(path): the list of (name, ttl, rtype, rdata) of the file
\* of that stem; lines is path.read_text().splitlines()
parse_zone_file(stem, lines) ==
    ParseLines([origin |-> stem, records |-> <<>>], lines).records

(***************************************************************************)
(* JSON values as call_wapi returns them (r.json())                        *)
(***************************************************************************)

JNone     == [t |-> "none"]
JStr(s)   == [t |-> "str", s |-> s]
JInt(n)   == [t |-> "int", n |-> n]
JList(xs) == [t |-> "list", xs |-> xs]
\* a JSON object keeps its members in order: a sequence of <<key, value>>
JDict(items) == [t |-> "dict", items |-> items]

IsDict(v) == v.t = "dict"
IsList(v) == v.t = "list"
IsStr(v)  == v.t = "str"

\* Python truthiness: None, "", 0, [] and {} are false
Truthy(v) ==
    CASE v.t = "none" -> FALSE
      [] v.t = "str"  -> v.s # <<>>
      [] v.t = "int"  -> v.n # 0
      [] v.t = "list" -> v.xs # <<>>
      [] v.t = "dict" -> v.items # <<>>

\* the value of key k among the members, or default
RECURSIVE Lookup(_, _, _)
Lookup(items, k, default) ==
    IF items = <<>> THEN default
    ELSE IF items[1][1] = k THEN items[1][2]
    ELSE Lookup(Tail(items), k, default)

HasKey(d, k) == \E i \in 1..Len(d.items) : d.items[i][1] = k

\* d.get(k, default)
Get(d, k, default) == Lookup(d.items, k, default)

\* list(d.values())
Values(d) == [i \in 1..Len(d.items) |-> d.items[i][2]]

s_None == <<"N","o","n","e">>

\* str(v) of a scalar
PyStr(v) ==
    CASE v.t = "str"  -> v.s
      [] v.t = "int"  -> DecimalDigits(v.n)
      [] v.t = "none" -> s_None

\* the two codes the program reads as success
CodeInt1000 == JInt(1000)
CodeStr1000 == JStr(<<"1","0","0","0">>)

(***************************************************************************)
(* Python dict as the program builds it: insertion-ordered, a later        *)
(* assignment to a key replaces the value and keeps the key's place        *)
(***************************************************************************)

DictHas(m, key) == \E i \in 1..Len(m) : m[i][1] = key

DictGet(m, key) == m[CHOOSE i \in 1..Len(m) : m[i][1] = key][2]

DictSet(m, key, val) ==
    IF DictHas(m, key)
      THEN [i \in 1..Len(m) |-> IF m[i][1] = key THEN <<key, val>> ELSE m[i]]
      ELSE Append(m, <<key, val>>)

DictKeys(m) == {m[i][1] : i \in 1..Len(m)}

(***************************************************************************)
(* sync_zone_records: the code between two remote calls                    *)
(***************************************************************************)

\* lines 351-354: zone_map = {(name, rtype): (ttl, rdata) for ... in records}
RECURSIVE ZoneMapFrom(_, _)
ZoneMapFrom(records, m) ==
    IF records = <<>> THEN m
    ELSE LET r == Head(records)
         IN  ZoneMapFrom(Tail(records),
                 DictSet(m, <<JStr(r[1]), JStr(r[3])>>,
                            <<JStr(r[2]), JStr(r[4])>>))

\* a mapping in which the first record of a key stays, not the last
RECURSIVE ZoneMapFirstFrom(_, _)
ZoneMapFirstFrom(records, m) ==
    IF records = <<>> THEN m
    ELSE LET r   == Head(records)
             key == <<JStr(r[1]), JStr(r[3])>>
         IN  ZoneMapFirstFrom(Tail(records),
                 IF DictHas(m, key) THEN m
                 ELSE DictSet(m, key, <<JStr(r[2]), JStr(r[4])>>))

BuildZoneMapFirst(records) == ZoneMapFirstFrom(records, <<>>)

BuildZoneMap(records) == ZoneMapFrom(records, <<>>)

\* lines 336-339: the set dns_domains read from the dns-domains-list answer;
\* crash: the statement raises (KeyError, TypeError, AttributeError)
RECURSIVE DomainNamesOf(_, _)
DomainNamesOf(recs, acc) ==
    IF recs = <<>> THEN [crash |-> FALSE, names |-> acc]
    ELSE LET rec == Head(recs)
         IN  IF IsDict(rec) /\ HasKey(rec, "name")
               THEN DomainNamesOf(Tail(recs), acc \cup {Get(rec, "name", JNone)})
               ELSE [crash |-> TRUE, names |-> acc]

DnsDomainsOf(resp) ==
    LET response == Get(resp, "response", JDict(<<>>))
        code     == Get(response, "code", JNone)
    IN  IF code = CodeStr1000
          THEN IF HasKey(response, "data") /\ IsDict(Get(response, "data", JNone))
                 THEN DomainNamesOf(Values(Get(response, "data", JNone)), {})
                 ELSE [crash |-> TRUE, names |-> {}]
          ELSE [crash |-> FALSE, names |-> {}]

\* lines 369-381: the rows read from the dns-rows-list answer
\* status: "error" (line 370), "crash" (an exception) or "ok"
RowsOf(row_resp) ==
    LET response == Get(row_resp, "response", JDict(<<>>))
        rcode    == Get(response, "code", JNone)
    IN  IF rcode \notin {CodeStr1000, CodeInt1000}
          THEN [status |-> "error", rows |-> <<>>]
        ELSE IF ~HasKey(response, "data")
          THEN [status |-> "crash", rows |-> <<>>]
        ELSE LET data_field == Get(response, "data", JNone)
             IN  IF ~IsDict(data_field)
                   THEN [status |-> "crash", rows |-> <<>>]
                 ELSE LET raw == Get(data_field, "row", data_field)
                      IN  [status |-> "ok",
                           rows   |-> IF IsDict(raw) THEN Values(raw)
                                      ELSE IF IsList(raw) THEN raw.xs
                                      ELSE <<>>]

\* lines 386-390: one remote row in the program's form, name and type as
\* the key, (row_id, ttl, rdata) as the value
WapiKey(r) ==
    <<IF Truthy(Get(r, "name", JNone)) THEN Get(r, "name", JNone) ELSE JStr(s_at),
      Get(r, "rdtype", JStr(<<>>))>>

WapiValue(r) ==
    <<Get(r, "ID", JNone),
      JStr(PyStr(Get(r, "ttl", JStr(<<>>)))),
      JStr(RStripChar(Get(r, "rdata", JStr(<<>>)).s, "."))>>

\* lines 384-391: wapi_map; r.get on a row that is no dict and .rstrip on an
\* rdata that is no str raise AttributeError
RECURSIVE WapiMapFrom(_, _)
WapiMapFrom(rows, m) ==
    IF rows = <<>> THEN [crash |-> FALSE, map |-> m]
    ELSE LET r == Head(rows)
         IN  IF ~IsDict(r) \/ ~IsStr(Get(r, "rdata", JStr(<<>>)))
               THEN [crash |-> TRUE, map |-> m]
               ELSE WapiMapFrom(Tail(rows), DictSet(m, WapiKey(r), WapiValue(r)))

BuildWapiMap(rows) == WapiMapFrom(rows, <<>>)

(***************************************************************************)
(* compare_zone_ns: the Differ, for one domain                             *)
(***************************************************************************)

\* lines 261-275: the rows read from the dns-rows-list answer
CompareRowsOf(wapi_resp) ==
    LET resp == Get(wapi_resp, "response", JDict(<<>>))
        code == Get(resp, "code", JNone)
    IN  IF code \notin {CodeInt1000, CodeStr1000}
          THEN [status |-> "error", rows |-> <<>>]
        ELSE LET data_field == Get(resp, "data", JDict(<<>>))
             IN  IF ~IsDict(data_field)
                   THEN [status |-> "crash", rows |-> <<>>]
                 ELSE LET raw_rows == Get(data_field, "row", data_field)
                      IN  [status |-> "ok",
                           rows   |-> IF IsDict(raw_rows) THEN Values(raw_rows)
                                      ELSE IF IsList(raw_rows) THEN raw_rows.xs
                                      ELSE <<>>]

\* lines 282-286: one remote row as (name, ttl, rtype, rdata)
CompareRecord(r) ==
    <<IF Truthy(Get(r, "name", JNone)) THEN Get(r, "name", JNone) ELSE JStr(s_at),
      JStr(PyStr(Get(r, "ttl", JStr(<<>>)))),
      Get(r, "rdtype", JStr(<<>>)),
      JStr(RStripChar(Get(r, "rdata", JStr(<<>>)).s, "."))>>

\* lines 277-286: wapi_records; a row that is no dict is skipped, .rstrip on
\* an rdata that is no str raises AttributeError
RECURSIVE CompareRecordsFrom(_, _)
CompareRecordsFrom(rows, acc) ==
    IF rows = <<>> THEN [crash |-> FALSE, records |-> acc]
    ELSE LET r == Head(rows)
         IN  IF ~IsDict(r) THEN CompareRecordsFrom(Tail(rows), acc)
             ELSE IF ~IsStr(Get(r, "rdata", JStr(<<>>)))
               THEN [crash |-> TRUE, records |-> acc]
             ELSE CompareRecordsFrom(Tail(rows), Append(acc, CompareRecord(r)))

CompareRecords(rows) == CompareRecordsFrom(rows, <<>>)

\* a parsed record as the tuple of Python strings it is
ZoneTuple(rec) == <<JStr(rec[1]), JStr(rec[2]), JStr(rec[3]), JStr(rec[4])>>

SeqToSet(xs) == {xs[i] : i \in 1..Len(xs)}

\* lines 289-299: the status of every tuple of set_zone | set_wapi
Classify(zone_records, wapi_records) ==
    LET set_zone == {ZoneTuple(zone_records[i]) : i \in 1..Len(zone_records)}
        set_wapi == SeqToSet(wapi_records)
    IN  [t \in set_zone \cup set_wapi |->
            IF t \in set_zone /\ t \in set_wapi THEN "matching"
            ELSE IF t \in set_zone THEN "missing"
            ELSE "difference"]

\* a path: path.stem and path.suffix
FileName(f) == f.stem \o f.suffix

PathOf(f) == [stem |-> f.stem, suffix |-> f.suffix]

\* lines 342-343: sorted(ZONE_DIR.iterdir()), by file name
RECURSIVE SortedPaths(_)
SortedPaths(ps) ==
    IF ps = {} THEN <<>>
    ELSE LET first == CHOOSE f \in ps :
                        \A g \in ps \ {f} : StrLess(FileName(f), FileName(g))
         IN  <<first>> \o SortedPaths(ps \ {first})

\* path.read_text().splitlines(): the lines of the file of that name
ReadLines(dir, path) ==
    (CHOOSE f \in dir.files : PathOf(f) = path).lines

s_dot_zone == <<".","z","o","n","e">>

(***************************************************************************)
(* The provider behind call_wapi: what it holds and what it answers        *)
(***************************************************************************)

s_OK      == <<"O","K">>
s_timeout == <<"t","i","m","e","o","u","t">>

\* the keys of a map-shaped collection: arbitrary, here the positions
IndexKeys == <<"0","1","2","3","4","5","6","7","8","9">>

AsList(xs) == JList(xs)
AsMap(xs)  == JDict([i \in 1..Len(xs) |-> <<IndexKeys[i], xs[i]>>])

\* lines 65-66: requests raised RequestException
TransportError == JDict(<< <<"error", JStr(s_timeout)>> >>)

\* line 64: r.json() of an answer whose code is not 1000
ErrorResponse ==
    JDict(<< <<"response", JDict(<< <<"code", JInt(2000)>> >>)>> >>)

WireCode(wire) == IF wire.code = "int" THEN CodeInt1000 ELSE CodeStr1000

OkResponse(wire, fields) ==
    JDict(<< <<"response",
               JDict(<< <<"code", WireCode(wire)>>,
                        <<"result", JStr(s_OK)>> >> \o fields)>> >>)

DomainRec(d) == JDict(<< <<"name", JStr(d)>> >>)

DomainRecs(rem) == [i \in 1..Len(rem.domains) |-> DomainRec(rem.domains[i])]

\* the answer to dns-domains-list (lines 150, 180, 335)
WapiDomainsList(rem, wire) ==
    CASE wire.st = "transport" -> TransportError
      [] wire.st = "error"     -> ErrorResponse
      [] wire.st = "ok" ->
           OkResponse(wire, << <<"data",
             CASE wire.shape = "flat_map" -> AsMap(DomainRecs(rem))
               [] wire.shape = "flat_list" -> AsList(DomainRecs(rem))
               [] wire.shape = "domain_list" ->
                    JDict(<< <<"domain", AsList(DomainRecs(rem))>> >>)
               [] wire.shape = "domain_map" ->
                    JDict(<< <<"domain", AsMap(DomainRecs(rem))>> >>) >> >>)

\* the answer to dns-rows-list (lines 202, 255, 365)
WapiRowsList(rem, d, wire) ==
    CASE wire.st = "transport" -> TransportError
      [] wire.st = "error"     -> ErrorResponse
      [] wire.st = "ok" ->
           LET rows == rem.rows[d]
           IN  CASE wire.shape = "row_list" ->
                      OkResponse(wire, << <<"data",
                          JDict(<< <<"row", AsList(rows)>> >>)>> >>)
                 [] wire.shape = "row_map" ->
                      OkResponse(wire, << <<"data",
                          JDict(<< <<"row", AsMap(rows)>> >>)>> >>)
                 [] wire.shape = "flat_map" ->
                      OkResponse(wire, << <<"data", AsMap(rows)>> >>)
                 [] wire.shape = "row_scalar" ->
                      OkResponse(wire, << <<"data",
                          JDict(<< <<"row", JStr(s_OK)>> >>)>> >>)
                 [] wire.shape = "entry_scalar" ->
                      OkResponse(wire, << <<"data",
                          JDict(<< <<"row",
                              AsList(Append(rows, JStr(s_OK)))>> >>)>> >>)
                 [] wire.shape = "data_list" ->
                      OkResponse(wire, << <<"data", AsList(rows)>> >>)
                 [] wire.shape = "no_data" ->
                      OkResponse(wire, <<>>)

\* the shapes that hold the collection as a list or as a map
GoodListShapes == {"flat_map", "flat_list", "domain_list", "domain_map"}
GoodRowShapes  == {"row_list", "row_map", "flat_map"}
BadRowShapes   == {"row_scalar", "entry_scalar", "data_list", "no_data"}

FailWires == {[st |-> "transport", code |-> "int", shape |-> "none"],
              [st |-> "error",     code |-> "int", shape |-> "none"]}

\* the answers to dns-domains-list: a failure, or a success in either code
\* and any shape (the integer code makes the program skip the payload)
ListWires ==
    FailWires \cup
    {[st |-> "ok", code |-> "int", shape |-> "domain_list"]} \cup
    [st : {"ok"}, code : {"str"}, shape : GoodListShapes]

\* the answers to dns-rows-list: a failure, or a success in either code and
\* any shape (the program reads both codes alike, lines 369-370)
RowWires ==
    FailWires \cup
    {[st |-> "ok", code |-> "int", shape |-> "row_list"]} \cup
    [st : {"ok"}, code : {"str"}, shape : GoodRowShapes \cup BadRowShapes]

\* an answer that is a failure, or a success with an unexpected payload
IsFault(wire) == wire.st # "ok" \/ wire.shape \in BadRowShapes

IsListed(rem, d) == \E i \in 1..Len(rem.domains) : rem.domains[i] = d

Row(id, name, ttl, rdtype, rdata) ==
    JDict(<< <<"ID", id>>, <<"name", name>>, <<"ttl", ttl>>,
             <<"rdtype", rdtype>>, <<"rdata", rdata>> >>)

RowIds(rem) ==
    UNION {{Get(rem.rows[d][i], "ID", JNone) : i \in 1..Len(rem.rows[d])} :
              d \in DOMAIN rem.rows}

\* the identifier the provider gives a new row
NextId(rem) ==
    LET used == {v.n : v \in {w \in RowIds(rem) : w.t = "int"}}
    IN  JInt(IF used = {} THEN 1
             ELSE 1 + (CHOOSE n \in used : \A m \in used : m <= n))

\* dns-domain-add (line 360) succeeded
ProviderAddDomain(rem, d) == [rem EXCEPT !.domains = Append(@, d)]

\* dns-row-add (lines 399-405) succeeded: the row is stored as it was sent
ProviderAddRow(rem, d, data) ==
    [rem EXCEPT !.rows[d] =
        Append(@, Row(NextId(rem), data.name, data.ttl, data.type, data.rdata))]

HasRow(rem, d, row_id) ==
    \E i \in 1..Len(rem.rows[d]) : Get(rem.rows[d][i], "ID", JNone) = row_id

\* dns-row-update (lines 410-415) succeeded: ttl and rdata of the row change
ProviderUpdateRow(rem, d, data) ==
    [rem EXCEPT !.rows[d] =
        [i \in 1..Len(@) |->
            IF Get(@[i], "ID", JNone) = data.row_id
              THEN Row(data.row_id, Get(@[i], "name", JNone), data.ttl,
                       Get(@[i], "rdtype", JNone), data.rdata)
              ELSE @[i]]]

(***************************************************************************)
(* The zone directory and the provider's state the runs start from         *)
(***************************************************************************)

d_a == <<"a",".","c","z">>
d_b == <<"b",".","c","z">>
DomainNames == {d_a, d_b}

s_www   == <<"w","w","w">>
s_300   == <<"3","0","0">>
s_600   == <<"6","0","0">>
s_3600  == <<"3","6","0","0">>
s_A     == <<"A">>
s_CNAME == <<"C","N","A","M","E">>
s_MX    == <<"M","X">>
s_ip1   == <<"1",".","1",".","1",".","1">>
s_ip2   == <<"2",".","2",".","2",".","2">>
s_mx    == <<"1","0"," ","m","x",".","a",".","c","z",".">>
s_txt   == <<".","t","x","t">>

\* a record line of a zone file, as line 95 splits it
ZoneLine(name, ttl, class, rtype, rdata) ==
    name \o <<" ">> \o ttl \o <<" ">> \o class \o <<" ">> \o rtype
         \o <<" ">> \o rdata

\* the head line 223 writes: $ORIGIN d. / $TTL 3600 / an empty line
ZoneHead(d) ==
    << s_ORIGIN \o <<" ">> \o d \o <<".">>,
       s_TTL \o <<" ">> \o s_3600,
       <<>> >>

\* '@ 3600 IN A 1.1.1.1'
TextApex == << ZoneLine(s_at, s_3600, s_IN, s_A, s_ip1) >>

\* two records with the key (@, A)
TextDup ==
    << ZoneLine(s_at, s_3600, s_IN, s_A, s_ip1),
       ZoneLine(s_at, s_3600, s_IN, s_A, s_ip2) >>

\* the head line 223 writes, a comment, fully-qualified names, a lower-case
\* class, an rdata with a trailing dot, a malformed line
TextWww(d) ==
    ZoneHead(d) \o
    << <<";", " ", "z">>,
       ZoneLine(d \o <<".">>, s_3600, <<"i","n">>, s_A, s_ip1),
       ZoneLine(s_www \o <<".">> \o d \o <<".">>, s_300, s_IN, s_CNAME,
                d \o <<".">>),
       <<"w", "w", "w", " ", "A">> >>

\* a record of the root name: '. 3600 IN A 1.1.1.1'
TextRoot == << ZoneLine(<<".">>, s_3600, s_IN, s_A, s_ip1) >>

ZoneTexts(d) ==
    IF d = d_a THEN {TextApex, TextWww(d), TextRoot}
               ELSE {TextDup}

\* a file of ZONE_DIR: its stem, its suffix, the lines of its text
ZoneFile(d, lines) == [stem |-> d, suffix |-> s_dot_zone, lines |-> lines]

\* a file of the directory that is no zone file (line 343)
OtherFile == [stem |-> <<"a">>, suffix |-> s_txt, lines |-> <<>>]

\* a.cz always has a zone file, b.cz may have none
ZoneFileChoices(d) ==
    (IF d = d_a THEN {} ELSE {{}}) \cup {{ZoneFile(d, t)} : t \in ZoneTexts(d)}

ZoneDirs ==
    {[exists |-> FALSE, files |-> {}]} \cup
    {[exists |-> TRUE, files |-> fa \cup fb \cup {OtherFile}] :
        fa \in ZoneFileChoices(d_a), fb \in ZoneFileChoices(d_b)}

\* the apex row as the provider holds it: empty name, numeric ttl
RowsApex(base) ==
    << Row(JInt(base + 1), JStr(<<>>), JInt(3600), JStr(s_A), JStr(s_ip1)) >>

\* the www row with another ttl, and a row the zone files do not hold
RowsWww(base, d) ==
    << Row(JInt(base + 1), JStr(s_www), JStr(s_600), JStr(s_CNAME), JStr(d)),
       Row(JInt(base + 2), JStr(s_at), JStr(s_300), JStr(s_MX), JStr(s_mx)) >>

\* two rows with the key (@, A), in the other order than TextDup
RowsDup(base) ==
    << Row(JInt(base + 1), JStr(s_at), JInt(3600), JStr(s_A), JStr(s_ip2)),
       Row(JInt(base + 2), JStr(s_at), JInt(3600), JStr(s_A), JStr(s_ip1)) >>

\* what the provider may hold for a domain: not listed, or listed with rows
RemoteChoices(d) ==
    IF d = d_a
      THEN {[listed |-> FALSE, rows |-> <<>>],
            [listed |-> TRUE,  rows |-> <<>>],
            [listed |-> TRUE,  rows |-> RowsApex(0)],
            [listed |-> TRUE,  rows |-> RowsWww(0, d)],
            [listed |-> TRUE,  rows |-> RowsDup(0)]}
      ELSE {[listed |-> FALSE, rows |-> <<>>],
            [listed |-> TRUE,  rows |-> RowsDup(10)]}

Remotes ==
    {[domains |-> (IF ca.listed THEN <<d_a>> ELSE <<>>) \o
                  (IF cb.listed THEN <<d_b>> ELSE <<>>),
      rows    |-> [d \in DomainNames |-> IF d = d_a THEN ca.rows ELSE cb.rows]] :
        ca \in RemoteChoices(d_a), cb \in RemoteChoices(d_b)}

(***************************************************************************)
(* The state: the directory, the provider, and a run of sync_zone_records  *)
(***************************************************************************)

\* the runs the operator starts from the menu
MaxRuns == 2
\* the answers that are failures or carry an unexpected payload
MaxFaults == 1

VARIABLES
    zone_dir,     \* ZONE_DIR: whether it exists, and its files
    remote,       \* the provider: its domain list and each domain's rows
    pc,           \* "menu", a place in sync_zone_records, or "crashed"
    dns_domains,  \* line 336
    paths,        \* line 342: sorted(ZONE_DIR.iterdir())
    idx,          \* the position of the for loop of line 342 in paths
    domain,       \* line 347
    zone_map,     \* line 351
    wapi_map,     \* line 384
    k,            \* the position of the for loop of line 395 in zone_map
    calls,        \* the calls of call_wapi in this run: the command, its
                  \* data, whether the answer was a success (ok) and
                  \* well-formed; names: the provider's domain list when
                  \* asked; key: the zone_map key the call was made for
    out,          \* what this run printed
    faults,       \* the faulty answers so far
    runs,         \* the runs started
    prev_clean,   \* the last completed run saw no failed and no faulty answer
    prev_ops,     \* the dns-row-add and dns-row-update calls of that run
    prev_run,     \* of that run: whether every other call succeeded (sound), and
                  \* the dns-row-add and dns-row-update calls that failed
    rows,         \* lines 271-275 and 376-381: the rows of the last answer read
    zone_records, \* compare_zone_ns, line 250
    wapi_records, \* compare_zone_ns, line 277
    results       \* compare_zone_ns, line 240

vars == <<zone_dir, remote, pc, dns_domains, paths, idx, domain, zone_map,
          wapi_map, k, calls, out, faults, runs, prev_clean, prev_ops,
          prev_run, rows, zone_records, wapi_records, results>>

\* what only compare_zone_ns writes
compare_vars == <<zone_records, wapi_records, results>>

Msg(m, args) == [msg |-> m, args |-> args]

Init ==
    /\ zone_dir \in ZoneDirs
    /\ remote \in Remotes
    \* a domain without a zone file is left out of the provider as well
    /\ \A i \in 1..Len(remote.domains) :
          \E f \in zone_dir.files :
              f.stem = remote.domains[i] /\ f.suffix = s_dot_zone
    /\ pc = "menu"
    /\ dns_domains = {}
    /\ paths = <<>>
    /\ idx = 1
    /\ domain = <<>>
    /\ zone_map = <<>>
    /\ wapi_map = <<>>
    /\ k = 1
    /\ calls = <<>>
    /\ out = <<>>
    /\ faults = 0
    /\ runs = 0
    /\ prev_clean = FALSE
    /\ prev_ops = 0
    /\ prev_run = [sound |-> FALSE, failed |-> <<>>]
    /\ rows = <<>>
    /\ zone_records = <<>>
    /\ wapi_records = <<>>
    /\ results = <<>>

\* lines 328-332: the run ends at once when ZONE_DIR is missing
SyncNoZoneDir ==
    /\ pc = "menu"
    /\ runs < MaxRuns
    /\ ~zone_dir.exists
    /\ out' = <<Msg("header", <<>>), Msg("no_zone_dir", <<>>)>>
    /\ calls' = <<>>
    /\ runs' = runs + 1
    /\ UNCHANGED <<zone_dir, remote, pc, dns_domains, paths, idx, domain,
                   zone_map, wapi_map, k, faults, prev_clean, prev_ops,
                   prev_run, rows, compare_vars>>

\* lines 328-342: the run starts, asks for the domain list, lists ZONE_DIR
SyncStart ==
    /\ pc = "menu"
    /\ runs < MaxRuns
    /\ zone_dir.exists
    /\ \E wire \in ListWires :
         LET resp == WapiDomainsList(remote, wire)
             got  == DnsDomainsOf(resp)
         IN  /\ calls' = << [cmd   |-> "dns-domains-list",
                             ok    |-> wire.st = "ok",
                             wellformed |-> ~IsFault(wire),
                             names |-> {remote.domains[i] :
                                           i \in 1..Len(remote.domains)}] >>
             /\ IsFault(wire) => faults < MaxFaults
             /\ faults' = (IF IsFault(wire) THEN faults + 1 ELSE faults)
             /\ IF got.crash
                  THEN /\ pc' = "crashed"
                       /\ UNCHANGED <<dns_domains, paths, idx>>
                  ELSE /\ pc' = "loop"
                       /\ dns_domains' = got.names
                       /\ paths' = SortedPaths({PathOf(f) : f \in zone_dir.files})
                       /\ idx' = 1
    /\ out' = <<Msg("header", <<>>)>>
    /\ runs' = runs + 1
    /\ UNCHANGED <<zone_dir, remote, domain, zone_map, wapi_map, k, prev_clean, prev_ops,
                   prev_run, rows, compare_vars>>

ReadCommands == {"dns-domains-list", "dns-rows-list"}
RowOps       == {"dns-row-add", "dns-row-update"}

\* every answer of the run so far was a success with a well-formed payload
RunClean ==
    \A i \in 1..Len(calls) :
        /\ calls[i].ok
        /\ calls[i].cmd \in ReadCommands => calls[i].wellformed

\* lines 342, 428: no file is left; "Synchronisation complete."
SyncComplete ==
    /\ pc = "loop"
    /\ idx > Len(paths)
    /\ out' = Append(out, Msg("complete", <<>>))
    /\ pc' = "menu"
    /\ prev_clean' = RunClean
    /\ prev_ops' = Cardinality({i \in 1..Len(calls) : calls[i].cmd \in RowOps})
    /\ prev_run' =
          [sound  |-> \A i \in 1..Len(calls) :
                         calls[i].cmd \notin RowOps =>
                             /\ calls[i].ok
                             /\ calls[i].cmd \in ReadCommands => calls[i].wellformed,
           failed |-> LET bad == SelectSeq(calls, LAMBDA c :
                                               c.cmd \in RowOps /\ ~c.ok)
                      IN  [i \in 1..Len(bad) |->
                              [cmd |-> bad[i].cmd, data |-> bad[i].data]]]
    /\ rows' = <<>>
    \* the function returns: its local variables are gone
    /\ dns_domains' = {}
    /\ paths' = <<>>
    /\ idx' = 1
    /\ domain' = <<>>
    /\ zone_map' = <<>>
    /\ wapi_map' = <<>>
    /\ k' = 1
    /\ UNCHANGED <<zone_dir, remote, calls, faults, runs, compare_vars>>

\* lines 343-345: a file that is no zone file is skipped
IgnoreFile ==
    /\ pc = "loop"
    /\ idx <= Len(paths)
    /\ paths[idx].suffix # s_dot_zone
    /\ out' = Append(out, Msg("ignored", <<FileName(paths[idx])>>))
    /\ idx' = idx + 1
    /\ UNCHANGED <<zone_dir, remote, pc, dns_domains, paths, domain, zone_map,
                   wapi_map, k, calls, faults, runs, prev_clean, prev_ops,
                   prev_run, rows, compare_vars>>

\* a loop body without the lines 358-362: no domain is ever created
BeginDomainNoCreate ==
    /\ pc = "loop"
    /\ idx <= Len(paths)
    /\ paths[idx].suffix = s_dot_zone
    /\ LET zm == BuildZoneMap(parse_zone_file(paths[idx].stem,
                                              ReadLines(zone_dir, paths[idx])))
       IN  /\ domain' = paths[idx].stem
           /\ zone_map' = zm
           /\ out' = out \o <<Msg("processing", <<paths[idx].stem>>),
                              Msg("locally", <<Len(zm)>>)>>
    /\ pc' = "fetch"
    /\ UNCHANGED <<zone_dir, remote, dns_domains, paths, idx, wapi_map, k,
                   calls, faults, runs, prev_clean, prev_ops,
                   prev_run, rows, compare_vars>>

\* lines 347-358: the next zone file is read
BeginDomain ==
    /\ pc = "loop"
    /\ idx <= Len(paths)
    /\ paths[idx].suffix = s_dot_zone
    /\ LET zm == BuildZoneMap(parse_zone_file(paths[idx].stem,
                                              ReadLines(zone_dir, paths[idx])))
       IN  /\ domain' = paths[idx].stem
           /\ zone_map' = zm
           /\ out' = out \o <<Msg("processing", <<paths[idx].stem>>),
                              Msg("locally", <<Len(zm)>>)>>
    /\ pc' = IF JStr(paths[idx].stem) \notin dns_domains THEN "create" ELSE "fetch"
    /\ UNCHANGED <<zone_dir, remote, dns_domains, paths, idx, wapi_map, k,
                   calls, faults, runs, prev_clean, prev_ops,
                   prev_run, rows, compare_vars>>

\* lines 358-362: dns-domain-add; its answer is not read
CreateDomain ==
    /\ pc = "create"
    /\ \E status \in {"ok", "error", "transport"} :
         /\ IF IsListed(remote, domain)
              THEN status = "error"        \* the provider holds it already
              ELSE status # "ok" => faults < MaxFaults
         /\ calls' = Append(calls, [cmd  |-> "dns-domain-add",
                                    data |-> [name |-> JStr(domain)],
                                    ok   |-> status = "ok"])
         /\ remote' = IF status = "ok" THEN ProviderAddDomain(remote, domain)
                                       ELSE remote
         /\ faults' = IF status # "ok" /\ ~IsListed(remote, domain)
                        THEN faults + 1 ELSE faults
    /\ out' = Append(out, Msg("adding_domain", <<domain>>))
    /\ pc' = "fetch"
    /\ UNCHANGED <<zone_dir, dns_domains, paths, idx, domain, zone_map,
                   wapi_map, k, runs, prev_clean, prev_ops,
                   prev_run, rows, compare_vars>>

\* a fetch without the `continue` of line 372: after a failed dns-rows-list
\* the domain is reconciled against an empty wapi_map
FetchRowsGoOn ==
    /\ pc = "fetch"
    /\ \E wire \in RowWires :
         /\ IF IsListed(remote, domain)
              THEN IsFault(wire) => faults < MaxFaults
              ELSE wire.st = "error"
         /\ faults' = IF IsFault(wire) /\ IsListed(remote, domain)
                        THEN faults + 1 ELSE faults
         /\ calls' = Append(calls, [cmd  |-> "dns-rows-list",
                                    data |-> [domain |-> JStr(domain)],
                                    ok   |-> wire.st = "ok",
                                    wellformed |-> ~IsFault(wire)])
         /\ LET got == RowsOf(WapiRowsList(remote, domain, wire))
                wm  == BuildWapiMap(got.rows)
            IN  CASE got.status = "crash" \/ wm.crash ->
                       /\ pc' = "crashed"
                       /\ UNCHANGED <<out, idx, wapi_map, k, rows>>
                  [] OTHER ->
                       /\ rows' = got.rows
                       /\ wapi_map' = wm.map
                       /\ out' = Append(out, Msg("wapi", <<Len(wm.map)>>))
                       /\ k' = 1
                       /\ pc' = "records"
                       /\ UNCHANGED idx
    /\ UNCHANGED <<zone_dir, remote, dns_domains, paths, domain, zone_map,
                   runs, prev_clean, prev_ops,
                   prev_run, compare_vars>>

\* lines 364-392: dns-rows-list, and wapi_map built from its answer
FetchRows ==
    /\ pc = "fetch"
    /\ \E wire \in RowWires :
         /\ IF IsListed(remote, domain)
              THEN IsFault(wire) => faults < MaxFaults
              ELSE wire.st = "error"       \* the provider has no such domain
         /\ faults' = IF IsFault(wire) /\ IsListed(remote, domain)
                        THEN faults + 1 ELSE faults
         /\ calls' = Append(calls, [cmd  |-> "dns-rows-list",
                                    data |-> [domain |-> JStr(domain)],
                                    ok   |-> wire.st = "ok",
                                    wellformed |-> ~IsFault(wire)])
         /\ LET got == RowsOf(WapiRowsList(remote, domain, wire))
                wm  == BuildWapiMap(got.rows)
            IN  CASE got.status = "error" ->
                       /\ out' = Append(out, Msg("error_loading_records", <<domain>>))
                       /\ idx' = idx + 1
                       /\ pc' = "loop"
                       /\ UNCHANGED <<wapi_map, k, rows>>
                  [] got.status = "crash" \/ (got.status = "ok" /\ wm.crash) ->
                       /\ pc' = "crashed"
                       /\ UNCHANGED <<out, idx, wapi_map, k, rows>>
                  [] got.status = "ok" /\ ~wm.crash ->
                       /\ rows' = got.rows
                       /\ wapi_map' = wm.map
                       /\ out' = Append(out, Msg("wapi", <<Len(wm.map)>>))
                       /\ k' = 1
                       /\ pc' = "records"
                       /\ UNCHANGED idx
    /\ UNCHANGED <<zone_dir, remote, dns_domains, paths, domain, zone_map,
                   runs, prev_clean, prev_ops,
                   prev_run, compare_vars>>

\* an add step that stays at the record when its dns-row-add failed, and so
\* issues it again
AddRecordRetry ==
    /\ pc = "records"
    /\ k <= Len(zone_map)
    /\ ~DictHas(wapi_map, zone_map[k][1])
    /\ LET key  == zone_map[k][1]
           val  == zone_map[k][2]
           data == [domain |-> JStr(domain), name |-> key[1], ttl |-> val[1],
                    type |-> key[2], rdata |-> val[2]]
       IN  /\ out' = Append(out, Msg("adding_record", key))
           /\ \E status \in {"ok", "error", "transport"} :
                /\ status # "ok" => faults < MaxFaults
                /\ faults' = IF status # "ok" THEN faults + 1 ELSE faults
                /\ calls' = Append(calls, [cmd  |-> "dns-row-add",
                                           data |-> data,
                                           key  |-> key,
                                           ok   |-> status = "ok"])
                /\ remote' = IF status = "ok"
                               THEN ProviderAddRow(remote, domain, data)
                               ELSE remote
                /\ k' = IF status = "ok" THEN k + 1 ELSE k
    /\ UNCHANGED <<zone_dir, pc, dns_domains, paths, idx, domain, zone_map,
                   wapi_map, runs, prev_clean, prev_ops,
                   prev_run, rows, compare_vars>>

\* lines 395-405: the local key is not in wapi_map: dns-row-add
AddRecord ==
    /\ pc = "records"
    /\ k <= Len(zone_map)
    /\ ~DictHas(wapi_map, zone_map[k][1])
    /\ LET key  == zone_map[k][1]
           val  == zone_map[k][2]
           data == [domain |-> JStr(domain), name |-> key[1], ttl |-> val[1],
                    type |-> key[2], rdata |-> val[2]]
       IN  /\ out' = Append(out, Msg("adding_record", key))
           /\ \E status \in {"ok", "error", "transport"} :
                /\ status # "ok" => faults < MaxFaults
                /\ faults' = IF status # "ok" THEN faults + 1 ELSE faults
                /\ calls' = Append(calls, [cmd  |-> "dns-row-add",
                                           data |-> data,
                                           key  |-> key,
                                           ok   |-> status = "ok"])
                /\ remote' = IF status = "ok"
                               THEN ProviderAddRow(remote, domain, data)
                               ELSE remote
    /\ k' = k + 1
    /\ UNCHANGED <<zone_dir, pc, dns_domains, paths, idx, domain, zone_map,
                   wapi_map, runs, prev_clean, prev_ops,
                   prev_run, rows, compare_vars>>

\* an update step that sends the ttl wapi_map holds, not the local one
UpdateRecordRemoteTtl ==
    /\ pc = "records"
    /\ k <= Len(zone_map)
    /\ DictHas(wapi_map, zone_map[k][1])
    /\ LET key  == zone_map[k][1]
           val  == zone_map[k][2]
           w    == DictGet(wapi_map, key)
           data == [domain |-> JStr(domain), row_id |-> w[1], ttl |-> w[2],
                    rdata |-> val[2]]
       IN  /\ val[1] # w[2] \/ val[2] # w[3]
           /\ out' = Append(out, Msg("updating_record", key))
           /\ \E status \in {"ok", "error", "transport"} :
                /\ IF HasRow(remote, domain, w[1])
                     THEN status # "ok" => faults < MaxFaults
                     ELSE status = "error"
                /\ faults' = IF status # "ok" /\ HasRow(remote, domain, w[1])
                               THEN faults + 1 ELSE faults
                /\ calls' = Append(calls, [cmd  |-> "dns-row-update",
                                           data |-> data,
                                           key  |-> key,
                                           ok   |-> status = "ok"])
                /\ remote' = IF status = "ok"
                               THEN ProviderUpdateRow(remote, domain, data)
                               ELSE remote
    /\ k' = k + 1
    /\ UNCHANGED <<zone_dir, pc, dns_domains, paths, idx, domain, zone_map,
                   wapi_map, runs, prev_clean, prev_ops,
                   prev_run, rows, compare_vars>>

\* lines 406-415: the key is in wapi_map with another ttl or rdata:
\* dns-row-update of the row wapi_map holds
UpdateRecord ==
    /\ pc = "records"
    /\ k <= Len(zone_map)
    /\ DictHas(wapi_map, zone_map[k][1])
    /\ LET key  == zone_map[k][1]
           val  == zone_map[k][2]
           w    == DictGet(wapi_map, key)
           data == [domain |-> JStr(domain), row_id |-> w[1], ttl |-> val[1],
                    rdata |-> val[2]]
       IN  /\ val[1] # w[2] \/ val[2] # w[3]
           /\ out' = Append(out, Msg("updating_record", key))
           /\ \E status \in {"ok", "error", "transport"} :
                /\ IF HasRow(remote, domain, w[1])
                     THEN status # "ok" => faults < MaxFaults
                     ELSE status = "error"  \* the provider has no such row
                /\ faults' = IF status # "ok" /\ HasRow(remote, domain, w[1])
                               THEN faults + 1 ELSE faults
                /\ calls' = Append(calls, [cmd  |-> "dns-row-update",
                                           data |-> data,
                                           key  |-> key,
                                           ok   |-> status = "ok"])
                /\ remote' = IF status = "ok"
                               THEN ProviderUpdateRow(remote, domain, data)
                               ELSE remote
    /\ k' = k + 1
    /\ UNCHANGED <<zone_dir, pc, dns_domains, paths, idx, domain, zone_map,
                   wapi_map, runs, prev_clean, prev_ops,
                   prev_run, rows, compare_vars>>

\* lines 406-408: the key is in wapi_map with the same ttl and rdata
KeepRecord ==
    /\ pc = "records"
    /\ k <= Len(zone_map)
    /\ DictHas(wapi_map, zone_map[k][1])
    /\ LET val == zone_map[k][2]
           w   == DictGet(wapi_map, zone_map[k][1])
       IN  val[1] = w[2] /\ val[2] = w[3]
    /\ k' = k + 1
    /\ UNCHANGED <<zone_dir, remote, pc, dns_domains, paths, idx, domain,
                   zone_map, wapi_map, calls, out, faults, runs, prev_clean, prev_ops,
                   prev_run, rows, compare_vars>>

\* lines 418-422: what the loop over wapi_map prints
RECURSIVE DeleteReports(_, _)
DeleteReports(wm, zm) ==
    IF wm = <<>> THEN <<>>
    ELSE (IF DictHas(zm, wm[1][1])
            THEN <<>>
            ELSE <<Msg("disabled_delete", wm[1][1])>>)
         \o DeleteReports(Tail(wm), zm)

\* the calls of lines 424-426, were they no string literal
RECURSIVE DeleteCalls(_, _, _)
DeleteCalls(wm, zm, d) ==
    IF wm = <<>> THEN <<>>
    ELSE (IF DictHas(zm, wm[1][1])
            THEN <<>>
            ELSE << [cmd  |-> "dns-row-delete",
                     data |-> [domain |-> JStr(d), row_id |-> wm[1][2][1]],
                     key  |-> wm[1][1],
                     ok   |-> TRUE] >>)
         \o DeleteCalls(Tail(wm), zm, d)

\* a step 9 that sends dns-row-delete for every key it prints
ReportDeletesAndDelete ==
    /\ pc = "records"
    /\ k > Len(zone_map)
    /\ out' = out \o DeleteReports(wapi_map, zone_map)
    /\ calls' = calls \o DeleteCalls(wapi_map, zone_map, domain)
    /\ idx' = idx + 1
    /\ pc' = "loop"
    /\ UNCHANGED <<zone_dir, remote, dns_domains, paths, domain, zone_map,
                   wapi_map, k, faults, runs, prev_clean, prev_ops,
                   prev_run, rows, compare_vars>>

\* lines 417-427: the remote keys the zone file does not hold are printed;
\* the dns-row-delete call is inside a string literal and never runs
ReportDeletes ==
    /\ pc = "records"
    /\ k > Len(zone_map)
    /\ out' = out \o DeleteReports(wapi_map, zone_map)
    /\ idx' = idx + 1
    /\ pc' = "loop"
    /\ UNCHANGED <<zone_dir, remote, dns_domains, paths, domain, zone_map,
                   wapi_map, k, calls, faults, runs, prev_clean, prev_ops,
                   prev_run, rows, compare_vars>>

Next ==
    \/ SyncNoZoneDir
    \/ SyncStart
    \/ SyncComplete
    \/ IgnoreFile
    \/ BeginDomain
    \/ CreateDomain
    \/ FetchRows
    \/ AddRecord
    \/ UpdateRecord
    \/ KeepRecord
    \/ ReportDeletes

Spec == Init /\ [][Next]_vars

(***************************************************************************)
(* Reading the run: its calls and its output                               *)
(***************************************************************************)

Last(xs) == xs[Len(xs)]

\* the run printed "Synchronisation complete." and returned to the menu
Completed == pc = "menu" /\ out # <<>> /\ Last(out).msg = "complete"

\* the for loop of line 342 has visited every file and not yet returned
AllVisited == pc = "loop" /\ idx > Len(paths)

\* the domain a call is about (no domain for dns-domains-list)
CallDomain(c) ==
    CASE c.cmd = "dns-domains-list" -> JNone
      [] c.cmd = "dns-domain-add"   -> c.data.name
      [] OTHER                      -> c.data.domain

IsCallFor(c, d) == CallDomain(c) = JStr(d)

\* the calls of this run about domain d, in their order
CallsFor(d) == SelectSeq(calls, LAMBDA c : IsCallFor(c, d))

OpsFor(d, cmd) == SelectSeq(calls, LAMBDA c : IsCallFor(c, d) /\ c.cmd = cmd)

\* the loop of line 342 has just finished the steps 8 and 9 for `domain`:
\* zone_map and wapi_map are those of that domain
DomainReconciled ==
    /\ pc = "loop"
    /\ out # <<>>
    /\ Last(out).msg \in {"wapi", "adding_record", "updating_record",
                          "disabled_delete"}

\* what the run printed since it began with `domain`
RECURSIVE SinceProcessing(_)
SinceProcessing(o) ==
    IF o = <<>> THEN <<>>
    ELSE IF Last(o).msg = "processing" THEN <<>>
    ELSE Append(SinceProcessing(SubSeq(o, 1, Len(o) - 1)), Last(o))

\* every dns-rows-list of this run that succeeded held the rows as a list or
\* as a map
FetchesSound ==
    \A i \in 1..Len(calls) :
        calls[i].cmd = "dns-rows-list" /\ calls[i].ok => calls[i].wellformed

(***************************************************************************)
(* C1  Idempotence.  When a run in which every call succeeded is followed  *)
(* by another run (same zone files, the provider changed by the first      *)
(* run's calls only, its answers holding its rows), the second run issues  *)
(* no dns-row-add and no dns-row-update.                                   *)
(***************************************************************************)
C1_Idempotence ==
    (pc \notin {"menu", "crashed"} /\ prev_clean /\ FetchesSound)
        => \A i \in 1..Len(calls) : calls[i].cmd \notin RowOps

(***************************************************************************)
(* C2  Deletion safety.  No run issues dns-row-delete; when a domain has   *)
(* been reconciled, every remote (name, type) key the zone file does not   *)
(* hold has been printed as a deletion candidate, and no dns-row-add and   *)
(* no dns-row-update of the run was made for such a key.                   *)
(***************************************************************************)
RemoteOnlyKeys == DictKeys(wapi_map) \ DictKeys(zone_map)

C2_DeletionSafety ==
    /\ \A i \in 1..Len(calls) : calls[i].cmd # "dns-row-delete"
    /\ DomainReconciled =>
         \A key \in RemoteOnlyKeys :
            /\ \E j \in 1..Len(SinceProcessing(out)) :
                  SinceProcessing(out)[j] = Msg("disabled_delete", key)
            /\ \A i \in 1..Len(calls) :
                  (calls[i].cmd \in RowOps /\ IsCallFor(calls[i], domain))
                      => calls[i].key # key

\* a reconciled domain whose remote rows hold a key the zone file lacks
C2_Witness ==
    /\ DomainReconciled
    /\ RemoteOnlyKeys # {}
    /\ \E i \in 1..Len(calls) : calls[i].cmd \in RowOps

(***************************************************************************)
(* C3  Convergence.  After a run in which every remote call succeeded, the *)
(* Differ (compare_zone_ns) classifies no (name, ttl, type, rdata) tuple   *)
(* of a zone file as 'missing': the provider holds every record of the     *)
(* zone file.                                                              *)
(***************************************************************************)

\* a dns-rows-list answer that holds the rows as a list
SoundRowWire == [st |-> "ok", code |-> "str", shape |-> "row_list"]

\* lines 250-286: what the Differ reads for domain d from the zone file and
\* from the provider
DifferStatuses(d) ==
    LET path == [stem |-> d, suffix |-> s_dot_zone]
        held == CompareRowsOf(WapiRowsList(remote, d, SoundRowWire)).rows
    IN  Classify(parse_zone_file(d, ReadLines(zone_dir, path)),
                 CompareRecords(held).records)

ZoneFileDomains == {f.stem : f \in {g \in zone_dir.files : g.suffix = s_dot_zone}}

C3_Convergence ==
    (Completed /\ prev_clean) =>
        \A d \in ZoneFileDomains :
            LET statuses == DifferStatuses(d)
            IN  \A t \in DOMAIN statuses : statuses[t] # "missing"

(***************************************************************************)
(* C4  Domain existence.  In a run whose dns-domains-list succeeded, a     *)
(* dns-domain-add is issued for a domain exactly when the domain is not in *)
(* the provider's domain list: every domain the run has fetched the rows   *)
(* of was created in this run if and only if the list did not hold it.     *)
(***************************************************************************)
C4_CreateIffUnlisted ==
    (calls # <<>> /\ calls[1].ok) =>
        \A d \in DomainNames :
            OpsFor(d, "dns-rows-list") # <<>> =>
                (OpsFor(d, "dns-domain-add") # <<>> <=> d \notin calls[1].names)

(***************************************************************************)
(* C5  Create before records.  No domain is created twice in a run, a      *)
(* dns-domain-add precedes every dns-rows-list, dns-row-add and            *)
(* dns-row-update of its domain, and a domain that is not in the           *)
(* provider's list is created exactly once, as the first call about it.    *)
(* The zone file '@ 3600 IN A 1.1.1.1' of an unlisted domain yields one    *)
(* dns-domain-add, the fetch, and one dns-row-add with name '@', ttl       *)
(* '3600', type 'A', rdata '1.1.1.1'.                                      *)
(***************************************************************************)
Cmds(cs) == [i \in 1..Len(cs) |-> cs[i].cmd]

ApexAdd(d) ==
    [domain |-> JStr(d), name |-> JStr(<<"@">>),
     ttl |-> JStr(<<"3","6","0","0">>), type |-> JStr(<<"A">>),
     rdata |-> JStr(<<"1",".","1",".","1",".","1">>)]

IsApexFile(d) ==
    \E f \in zone_dir.files :
        /\ f.stem = d
        /\ f.suffix = s_dot_zone
        /\ f.lines = << <<"@"," ","3","6","0","0"," ","I","N"," ","A"," ",
                          "1",".","1",".","1",".","1">> >>

C5_CreateBeforeRecords ==
    /\ \A d \in DomainNames : Len(OpsFor(d, "dns-domain-add")) <= 1
    /\ \A i, j \in 1..Len(calls) :
          (/\ calls[i].cmd = "dns-domain-add"
           /\ calls[j].cmd \in RowOps \cup {"dns-rows-list"}
           /\ CallDomain(calls[i]) = CallDomain(calls[j])) => i < j
    /\ \A d \in DomainNames :
          (OpsFor(d, "dns-rows-list") # <<>> /\ d \notin calls[1].names) =>
              /\ Len(OpsFor(d, "dns-domain-add")) = 1
              /\ CallsFor(d)[1].cmd = "dns-domain-add"
    /\ (DomainReconciled /\ domain \notin calls[1].names /\ IsApexFile(domain)) =>
          /\ Cmds(CallsFor(domain)) =
                <<"dns-domain-add", "dns-rows-list", "dns-row-add">>
          /\ CallsFor(domain)[3].data = ApexAdd(domain)

\* the scenario: the run has reconciled an unlisted domain whose zone file
\* is '@ 3600 IN A 1.1.1.1'
C5_Witness ==
    /\ DomainReconciled
    /\ domain \notin calls[1].names
    /\ IsApexFile(domain)
    /\ Len(CallsFor(domain)) = 3

(***************************************************************************)
(* C6  Add step.  When a domain has been reconciled, the dns-row-add calls *)
(* of the run for it are one call for every (name, type) key of the zone   *)
(* file that the remote mapping does not hold and none for a key it holds; *)
(* each call carries the key's name and type and the ttl and rdata of the  *)
(* last record of the zone file with that key.                             *)
(***************************************************************************)

\* the records of the zone file of `domain`, as line 353 reads them
LocalRecords ==
    parse_zone_file(domain, ReadLines(zone_dir, [stem |-> domain,
                                                 suffix |-> s_dot_zone]))

RecordKey(rec) == <<JStr(rec[1]), JStr(rec[3])>>

KeysOf(recs) == {RecordKey(recs[i]) : i \in 1..Len(recs)}

\* the last record of recs with that key
LastWithKey(recs, key) ==
    recs[CHOOSE i \in 1..Len(recs) :
            /\ RecordKey(recs[i]) = key
            /\ \A j \in (i + 1)..Len(recs) : RecordKey(recs[j]) # key]

AddCalls == OpsFor(domain, "dns-row-add")

AddData(recs, key) ==
    LET last == LastWithKey(recs, key)
    IN  [domain |-> JStr(domain), name |-> key[1], type |-> key[2],
         ttl |-> JStr(last[2]), rdata |-> JStr(last[4])]

C6_AddStep ==
    DomainReconciled =>
        LET recs     == LocalRecords
            adds     == AddCalls
            absent   == KeysOf(recs) \ DictKeys(wapi_map)
            expected == {AddData(recs, key) : key \in absent}
        IN  /\ \A e \in expected :
                  Cardinality({i \in 1..Len(adds) : adds[i].data = e}) = 1
            /\ \A i \in 1..Len(adds) : adds[i].data \in expected

\* a reconciled domain whose zone file holds a key twice, the remote
\* mapping not holding it
C6_Witness ==
    /\ DomainReconciled
    /\ Len(LocalRecords) > Cardinality(KeysOf(LocalRecords))
    /\ AddCalls # <<>>

(***************************************************************************)
(* C7  Update step.  When a domain has been reconciled, the                *)
(* dns-row-update calls of the run for it are one call for every key of    *)
(* the zone file that the remote mapping holds with another (ttl, rdata),  *)
(* with the row identifier of the remote mapping and the local ttl and     *)
(* rdata, and no other; a key the remote mapping holds has no dns-row-add, *)
(* and no dns-row-delete is issued.                                        *)
(***************************************************************************)
UpdateCalls == OpsFor(domain, "dns-row-update")

LocalValue(recs, key) ==
    LET last == LastWithKey(recs, key)
    IN  <<JStr(last[2]), JStr(last[4])>>

RemoteValue(key) == <<DictGet(wapi_map, key)[2], DictGet(wapi_map, key)[3]>>

UpdateData(recs, key) ==
    [domain |-> JStr(domain), row_id |-> DictGet(wapi_map, key)[1],
     ttl |-> LocalValue(recs, key)[1], rdata |-> LocalValue(recs, key)[2]]

DifferingKeysOf(recs) ==
    {key \in KeysOf(recs) \cap DictKeys(wapi_map) :
        LocalValue(recs, key) # RemoteValue(key)}

C7_UpdateStep ==
    DomainReconciled =>
        LET recs      == LocalRecords
            updates   == UpdateCalls
            adds      == AddCalls
            differing == DifferingKeysOf(recs)
            expected  == {<<key, UpdateData(recs, key)>> : key \in differing}
        IN  /\ \A e \in expected :
                  Cardinality({i \in 1..Len(updates) :
                      <<updates[i].key, updates[i].data>> = e}) = 1
            /\ \A i \in 1..Len(updates) :
                  <<updates[i].key, updates[i].data>> \in expected
            /\ \A i \in 1..Len(adds) :
                  <<adds[i].data.name, adds[i].data.type>>
                      \notin DictKeys(wapi_map)
            /\ OpsFor(domain, "dns-row-delete") = <<>>

\* a reconciled domain with a key updated, a key kept or added
C7_Witness ==
    /\ DomainReconciled
    /\ DifferingKeysOf(LocalRecords) # {}
    /\ KeysOf(LocalRecords) \ DifferingKeysOf(LocalRecords) # {}

(***************************************************************************)
(* C8  Fetch-failure isolation.  A domain whose dns-rows-list failed has   *)
(* no dns-row-add and no dns-row-update in the run; the calls about every  *)
(* reconciled domain are those its own zone file, the domain list and its  *)
(* own remote mapping ask for, whatever happened to the domains before it; *)
(* and a run that completed has fetched the rows of every zone file.       *)
(***************************************************************************)
FetchFailed(d) ==
    \E i \in 1..Len(calls) :
        /\ calls[i].cmd = "dns-rows-list"
        /\ IsCallFor(calls[i], d)
        /\ ~calls[i].ok

\* the keys of recs in the order of their first record
RECURSIVE FirstKeys(_, _)
FirstKeys(recs, seen) ==
    IF recs = <<>> THEN <<>>
    ELSE LET key == RecordKey(Head(recs))
         IN  IF key \in seen THEN FirstKeys(Tail(recs), seen)
             ELSE <<key>> \o FirstKeys(Tail(recs), seen \cup {key})

Request(cmd, data) == [cmd |-> cmd, data |-> data]

RequestFor(recs, key) ==
    IF key \notin DictKeys(wapi_map)
      THEN <<Request("dns-row-add", AddData(recs, key))>>
    ELSE IF LocalValue(recs, key) # RemoteValue(key)
      THEN <<Request("dns-row-update", UpdateData(recs, key))>>
    ELSE <<>>

RECURSIVE RequestsFor(_, _)
RequestsFor(recs, keys) ==
    IF keys = <<>> THEN <<>>
    ELSE RequestFor(recs, Head(keys)) \o RequestsFor(recs, Tail(keys))

\* the calls steps 5 to 8 ask for, from the inputs of `domain` alone
ExpectedRequests ==
    LET recs == LocalRecords
    IN  (IF JStr(domain) \in dns_domains THEN <<>>
         ELSE <<Request("dns-domain-add", [name |-> JStr(domain)])>>)
        \o <<Request("dns-rows-list", [domain |-> JStr(domain)])>>
        \o RequestsFor(recs, FirstKeys(recs, {}))

Requests(cs) == [i \in 1..Len(cs) |-> Request(cs[i].cmd, cs[i].data)]

C8_FetchFailureIsolation ==
    /\ \A d \in DomainNames :
          FetchFailed(d) =>
              \A i \in 1..Len(calls) :
                  IsCallFor(calls[i], d) => calls[i].cmd \notin RowOps
    /\ DomainReconciled => Requests(CallsFor(domain)) = ExpectedRequests
    /\ Completed => \A d \in ZoneFileDomains : OpsFor(d, "dns-rows-list") # <<>>

\* a domain has been reconciled, with calls, after the fetch of an earlier
\* domain failed
C8_Witness ==
    /\ DomainReconciled
    /\ \E d \in DomainNames \ {domain} : FetchFailed(d)
    /\ \E i \in 1..Len(calls) :
          calls[i].cmd \in RowOps /\ IsCallFor(calls[i], domain)

(***************************************************************************)
(* C9  Failure reporting.  Whenever a dns-domain-add, dns-row-add or       *)
(* dns-row-update of the run has failed, the run has printed a failure     *)
(* report about that domain.                                               *)
(***************************************************************************)
MutatingCommands == {"dns-domain-add", "dns-row-add", "dns-row-update"}

\* the only failure sync_zone_records prints about a domain (line 371)
FailureReports == {"error_loading_records"}

C9_FailureReported ==
    \A i \in 1..Len(calls) :
        (calls[i].cmd \in MutatingCommands /\ ~calls[i].ok) =>
            \E j \in 1..Len(out) :
                /\ out[j].msg \in FailureReports
                /\ JStr(out[j].args[1]) = CallDomain(calls[i])

(***************************************************************************)
(* C10  No retry, no abort.  A run issues at most one dns-row-add or       *)
(* dns-row-update per domain and (name, type) key, failed or not; when a   *)
(* domain has been reconciled every key that asked for an add or an update *)
(* has had its call, whatever calls failed before; a completed run has     *)
(* processed or ignored every file; the loop over the records always       *)
(* returns to the loop over the files, and when every file has been        *)
(* visited the run prints 'Synchronisation complete'.                      *)
(***************************************************************************)
\* the interpreter keeps running the loop over the records and the statement
\* after the loop over the files
FairSpec ==
    /\ Spec
    /\ WF_vars(AddRecord)
    /\ WF_vars(UpdateRecord)
    /\ WF_vars(KeepRecord)
    /\ WF_vars(ReportDeletes)
    /\ WF_vars(SyncComplete)

RowOpsOf(d, key) ==
    {i \in 1..Len(calls) :
        /\ calls[i].cmd \in RowOps
        /\ IsCallFor(calls[i], d)
        /\ calls[i].key = key}

Printed(m) ==
    \E j \in 1..Len(out) : out[j].msg = m.msg /\ out[j].args = m.args

C10_Safety ==
    /\ \A i \in 1..Len(calls) :
          calls[i].cmd \in RowOps =>
              \A d \in DomainNames :
                  Cardinality(RowOpsOf(d, calls[i].key)) <= 1
    /\ DomainReconciled =>
          LET recs == LocalRecords
          IN  \A key \in (KeysOf(recs) \ DictKeys(wapi_map))
                            \cup DifferingKeysOf(recs) :
                  Cardinality(RowOpsOf(domain, key)) = 1
    /\ Completed =>
          \A f \in zone_dir.files :
              IF f.suffix = s_dot_zone
                THEN Printed(Msg("processing", <<f.stem>>))
                ELSE Printed(Msg("ignored", <<FileName(f)>>))

C10_NoRetryNoAbort ==
    /\ []C10_Safety
    /\ (pc = "records") ~> (pc = "loop")
    /\ AllVisited ~> Completed

\* a completed run in which a dns-row-add or dns-row-update failed and a
\* later one was issued
C10_Witness ==
    /\ Completed
    /\ \E i, j \in 1..Len(calls) :
          /\ i < j
          /\ calls[i].cmd \in RowOps
          /\ ~calls[i].ok
          /\ calls[j].cmd \in RowOps

(***************************************************************************)
(* C11  Correction after partial failure.  When in a run some of the       *)
(* dns-row-add and dns-row-update calls failed and every other call        *)
(* succeeded, the next run, the zone files unchanged, issues the           *)
(* dns-row-add and dns-row-update calls that failed in the first run and   *)
(* no other.                                                               *)
(***************************************************************************)

\* every call of this run that is no dns-row-add and no dns-row-update
\* succeeded, with a well-formed payload
RunSound ==
    \A i \in 1..Len(calls) :
        calls[i].cmd \notin RowOps =>
            /\ calls[i].ok
            /\ calls[i].cmd \in ReadCommands => calls[i].wellformed

RowRequests ==
    Requests(SelectSeq(calls, LAMBDA c : c.cmd \in RowOps))

C11_Correction ==
    (AllVisited /\ prev_run.sound /\ RunSound) =>
        RowRequests = prev_run.failed

(***************************************************************************)
(* compare_zone_ns and generate_zone_files, run from the menu              *)
(***************************************************************************)

\* a < b for two tuples of str, as sorted() of line 292 compares them
RECURSIVE TupleLess(_, _)
TupleLess(a, b) ==
    IF b = <<>> THEN FALSE
    ELSE IF a = <<>> THEN TRUE
    ELSE IF a[1] = b[1] THEN TupleLess(Tail(a), Tail(b))
    ELSE StrLess(a[1].s, b[1].s)

\* sorted(S) for a set of tuples
RECURSIVE SortedTuples(_)
SortedTuples(S) ==
    IF S = {} THEN <<>>
    ELSE LET first == CHOOSE t \in S : \A u \in S \ {t} : TupleLess(t, u)
         IN  <<first>> \o SortedTuples(S \ {first})

s_missing_in_WAPI == <<"m","i","s","s","i","n","g"," ","i","n"," ","W","A","P","I">>
s_missing_in_zone == <<"m","i","s","s","i","n","g"," ","i","n"," ","z","o","n","e"," ",
                       "f","i","l","e">>

\* the rows of a comparison that walks the two lists, not the set of
\* line 292
ResultRowsOfLists(d, zrecords, wrecords) ==
    LET set_zone == {ZoneTuple(zrecords[i]) : i \in 1..Len(zrecords)}
        set_wapi == SeqToSet(wrecords)
        all_recs == [i \in 1..Len(zrecords) |-> ZoneTuple(zrecords[i])]
                        \o wrecords
    IN  [i \in 1..Len(all_recs) |->
            LET t == all_recs[i]
                status == IF t \in set_zone /\ t \in set_wapi THEN "matching"
                          ELSE IF t \in set_zone THEN "missing"
                          ELSE "difference"
            IN  [domain |-> d, name |-> t[1], ttl |-> t[2], type |-> t[3],
                 rdata |-> t[4], status |-> status,
                 note |-> IF status = "matching" THEN <<>>
                          ELSE IF status = "missing" THEN s_missing_in_WAPI
                          ELSE s_missing_in_zone]]

\* lines 289-308: the rows compare_zone_ns appends to results for one domain
ResultRows(d, zrecords, wrecords) ==
    LET set_zone == {ZoneTuple(zrecords[i]) : i \in 1..Len(zrecords)}
        set_wapi == SeqToSet(wrecords)
        all_recs == SortedTuples(set_zone \cup set_wapi)
    IN  [i \in 1..Len(all_recs) |->
            LET t == all_recs[i]
                status == IF t \in set_zone /\ t \in set_wapi THEN "matching"
                          ELSE IF t \in set_zone THEN "missing"
                          ELSE "difference"
            IN  [domain |-> d, name |-> t[1], ttl |-> t[2], type |-> t[3],
                 rdata |-> t[4], status |-> status,
                 note |-> IF status = "matching" THEN <<>>
                          ELSE IF status = "missing" THEN s_missing_in_WAPI
                          ELSE s_missing_in_zone]]

\* line 229 with its fields: name \t ttl \t IN \t rdtype \t rdata
WriteRecordLine(name, ttl, rdtype, rdata) ==
    name \o <<"\t">> \o ttl \o <<"\t">> \o s_IN \o <<"\t">> \o rdtype
         \o <<"\t">> \o rdata

\* lines 225-228: row.get(key) or default, as the f-string prints it
FieldOr(row, key, default) ==
    IF Truthy(Get(row, key, JNone)) THEN PyStr(Get(row, key, JNone))
    ELSE default

\* lines 222-229: the text of the zone file, as splitlines() reads it back
RECURSIVE WriteRowLines(_)
WriteRowLines(rs) ==
    IF rs = <<>> THEN <<>>
    ELSE <<WriteRecordLine(FieldOr(Head(rs), "name", s_at),
                           FieldOr(Head(rs), "ttl", <<>>),
                           FieldOr(Head(rs), "rdtype", <<>>),
                           FieldOr(Head(rs), "rdata", <<>>))>>
         \o WriteRowLines(Tail(rs))

WriteZoneText(domain_name, rs) == ZoneHead(domain_name) \o WriteRowLines(rs)

\* lines 188-189: the domains read from the dns-domains-list answer
GenerateDomainsOf(resp) ==
    LET raw == Get(Get(resp, "data", JDict(<<>>)), "domain", JList(<<>>))
    IN  IF IsDict(raw) THEN Values(raw) ELSE raw.xs

\* lines 214-215: the rows read from the dns-rows-list answer
GenerateRowsOf(row_resp) ==
    LET row_data == Get(Get(row_resp, "data", JDict(<<>>)), "row", JDict(<<>>))
    IN  IF IsDict(row_data) THEN Values(row_data) ELSE row_data.xs

\* lines 197-231 for the domains one after the other: the files of ZONE_DIR
RECURSIVE GenerateFiles(_, _, _, _)
GenerateFiles(files, domains, rem, wire) ==
    IF domains = <<>> THEN files
    ELSE LET domain_name == Get(Head(domains), "name", JNone)
             row_resp == Get(WapiRowsList(rem, domain_name.s, wire),
                             "response", JDict(<<>>))
             rs       == GenerateRowsOf(row_resp)
             skip     == \/ ~Truthy(domain_name)
                         \/ Get(row_resp, "code", JNone)
                               \notin {CodeInt1000, CodeStr1000}
                         \/ rs = <<>>
             kept     == {f \in files : ~(f.stem = domain_name.s
                                          /\ f.suffix = s_dot_zone)}
         IN  GenerateFiles(
                 IF skip THEN files
                 ELSE kept \cup {ZoneFile(domain_name.s,
                                          WriteZoneText(domain_name.s, rs))},
                 Tail(domains), rem, wire)

\* the record lines of the zone file and the rows the provider holds,
\* together, when compare_zone_ns and generate_zone_files are run
MaxRecords == 2

SeqsUpTo(S, n) == UNION {[1..m -> S] : m \in 0..n}

\* '$ORIGIN b.cz.'
LineOrigin == s_ORIGIN \o <<" ">> \o d_b \o <<".">>
\* 'www.a.cz. 300 IN CNAME a.cz.'
LineFqdn == ZoneLine(s_www \o <<".">> \o d_a \o <<".">>, s_300, s_IN, s_CNAME,
                     d_a \o <<".">>)
\* 'b.cz. 3600 IN A 1.1.1.1'
LineOther == ZoneLine(d_b \o <<".">>, s_3600, s_IN, s_A, s_ip1)
\* 'www 300 IN CNAME a.cz'
LineRelative == ZoneLine(s_www, s_300, s_IN, s_CNAME, d_a)

\* the lines a zone file is made of
DifferLines == {LineOrigin, TextApex[1], LineFqdn, LineOther, LineRelative,
                TextRoot[1]}

\* the rows the provider may hold: the apex with an empty name and a numeric
\* ttl, www, a row without ttl, a name with a trailing dot, an rdata of
\* two tokens
DifferRows ==
    {Row(JInt(1), JStr(<<>>), JInt(3600), JStr(s_A), JStr(s_ip1)),
     Row(JInt(2), JStr(s_www), JStr(s_300), JStr(s_CNAME), JStr(d_a \o <<".">>)),
     Row(JInt(3), JStr(s_at), JStr(<<>>), JStr(s_A), JStr(s_ip2)),
     Row(JInt(4), JStr(s_www \o <<".">>), JStr(s_300), JStr(s_A), JStr(s_ip1)),
     Row(JInt(5), JStr(s_at), JInt(300), JStr(s_MX), JStr(s_mx))}

DifferInit ==
    /\ \E lines \in SeqsUpTo(DifferLines, MaxRecords),
          rs \in SeqsUpTo(DifferRows, MaxRecords) :
          /\ Len(lines) + Len(rs) <= MaxRecords
          /\ zone_dir \in
                {[exists |-> TRUE,
                  files |-> {OtherFile, ZoneFile(d_a, lines)}]} \cup
                (IF lines = <<>>
                   THEN {[exists |-> TRUE, files |-> {OtherFile}],
                         [exists |-> FALSE, files |-> {}]}
                   ELSE {})
          /\ remote = [domains |-> <<d_a>>,
                       rows |-> [d \in DomainNames |->
                                    IF d = d_a THEN rs ELSE <<>>]]
    /\ pc = "menu"
    /\ dns_domains = {}
    /\ paths = <<>>
    /\ idx = 1
    /\ domain = <<>>
    /\ zone_map = <<>>
    /\ wapi_map = <<>>
    /\ k = 1
    /\ calls = <<>>
    /\ out = <<>>
    /\ faults = 0
    /\ runs = 0
    /\ prev_clean = FALSE
    /\ prev_ops = 0
    /\ prev_run = [sound |-> FALSE, failed |-> <<>>]
    /\ rows = <<>>
    /\ zone_records = <<>>
    /\ wapi_records = <<>>
    /\ results = <<>>

\* what only sync_zone_records writes
sync_vars == <<dns_domains, zone_map, wapi_map, k, calls, faults, prev_clean,
               prev_ops, prev_run>>

\* lines 235-238: the run ends at once when ZONE_DIR is missing
CompareNoZoneDir ==
    /\ pc = "menu"
    /\ runs < MaxRuns
    /\ ~zone_dir.exists
    /\ out' = <<Msg("compare_header", <<>>), Msg("no_zone_dir", <<>>)>>
    /\ runs' = runs + 1
    /\ UNCHANGED <<zone_dir, remote, pc, paths, idx, domain, rows, sync_vars,
                   compare_vars>>

\* lines 235-241: the run starts and lists ZONE_DIR
CompareStart ==
    /\ pc = "menu"
    /\ runs < MaxRuns
    /\ zone_dir.exists
    /\ pc' = "compare"
    /\ paths' = SortedPaths({PathOf(f) : f \in zone_dir.files})
    /\ idx' = 1
    /\ results' = <<>>
    /\ zone_records' = <<>>
    /\ wapi_records' = <<>>
    /\ rows' = <<>>
    /\ out' = <<Msg("compare_header", <<>>)>>
    /\ runs' = runs + 1
    /\ UNCHANGED <<zone_dir, remote, domain, sync_vars>>

\* lines 243-245: a file that is no zone file is skipped
CompareIgnoreFile ==
    /\ pc = "compare"
    /\ idx <= Len(paths)
    /\ paths[idx].suffix # s_dot_zone
    /\ out' = Append(out, Msg("ignored", <<FileName(paths[idx])>>))
    /\ idx' = idx + 1
    /\ UNCHANGED <<zone_dir, remote, pc, paths, domain, runs, rows, sync_vars,
                   compare_vars>>

\* lines 247-308: one zone file is parsed, the rows of its domain are
\* fetched and the two are compared
CompareDomain ==
    /\ pc = "compare"
    /\ idx <= Len(paths)
    /\ paths[idx].suffix = s_dot_zone
    /\ LET d    == paths[idx].stem
           recs == parse_zone_file(d, ReadLines(zone_dir, paths[idx]))
       IN  /\ domain' = d
           /\ zone_records' = recs
           /\ \E wire \in RowWires :
                /\ ~IsListed(remote, d) => wire.st = "error"
                /\ LET got  == CompareRowsOf(WapiRowsList(remote, d, wire))
                       wrec == CompareRecords(got.rows)
                   IN  CASE got.status = "error" ->
                              /\ out' = out \o
                                    <<Msg("from_zone_file", <<Len(recs)>>),
                                      Msg("wapi_error", <<d>>)>>
                              /\ idx' = idx + 1
                              /\ UNCHANGED <<pc, rows, wapi_records, results>>
                         [] got.status = "crash"
                               \/ (got.status = "ok" /\ wrec.crash) ->
                              /\ pc' = "crashed"
                              /\ UNCHANGED <<out, idx, rows, wapi_records,
                                             results>>
                         [] got.status = "ok" /\ ~wrec.crash ->
                              /\ rows' = got.rows
                              /\ wapi_records' = wrec.records
                              /\ results' = results \o
                                    ResultRows(d, recs, wrec.records)
                              /\ out' = out \o
                                    <<Msg("from_zone_file", <<Len(recs)>>),
                                      Msg("from_wapi", <<Len(wrec.records)>>)>>
                              /\ idx' = idx + 1
                              /\ UNCHANGED pc
    /\ UNCHANGED <<zone_dir, remote, paths, runs, sync_vars>>

\* lines 310-325: the table is printed and written to the CSV file
CompareFinish ==
    /\ pc = "compare"
    /\ idx > Len(paths)
    /\ out' = out \o <<Msg("table", <<Len(results)>>), Msg("csv_saved", <<>>)>>
    /\ pc' = "menu"
    /\ UNCHANGED <<zone_dir, remote, paths, idx, domain, runs, rows, sync_vars,
                   compare_vars>>

\* the answers generate_zone_files is run against
GenerateListWires ==
    {[st |-> "error", code |-> "int", shape |-> "none"],
     [st |-> "ok", code |-> "int", shape |-> "domain_list"],
     [st |-> "ok", code |-> "str", shape |-> "domain_map"]}

GenerateRowWires ==
    {[st |-> "error", code |-> "int", shape |-> "none"],
     [st |-> "ok", code |-> "int", shape |-> "row_list"],
     [st |-> "ok", code |-> "str", shape |-> "row_map"]}

\* lines 178-231: a zone file is written for every domain that has rows
GenerateZoneFiles ==
    /\ pc = "menu"
    /\ runs < MaxRuns
    /\ \E lw \in GenerateListWires, rw \in GenerateRowWires :
         LET resp    == Get(WapiDomainsList(remote, lw), "response", JDict(<<>>))
             domains == GenerateDomainsOf(resp)
         IN  IF Get(resp, "code", JNone) \notin {CodeInt1000, CodeStr1000}
               THEN /\ out' = <<Msg("generate_header", <<>>),
                                Msg("error_loading_domains", <<>>)>>
                    /\ UNCHANGED zone_dir
             ELSE IF domains = <<>>
               THEN /\ out' = <<Msg("generate_header", <<>>),
                                Msg("no_domains", <<>>)>>
                    /\ UNCHANGED zone_dir
             ELSE /\ out' = <<Msg("generate_header", <<>>)>>
                  /\ zone_dir' =
                        [exists |-> TRUE,
                         files  |-> GenerateFiles(zone_dir.files, domains,
                                                  remote, rw)]
    /\ runs' = runs + 1
    /\ UNCHANGED <<remote, pc, paths, idx, domain, rows, sync_vars, compare_vars>>

DifferNext ==
    \/ CompareNoZoneDir
    \/ CompareStart
    \/ CompareIgnoreFile
    \/ CompareDomain
    \/ CompareFinish
    \/ GenerateZoneFiles

DifferSpec == DifferInit /\ [][DifferNext]_vars

(***************************************************************************)
(* C12  Diff completeness.  When compare_zone_ns has compared a domain,    *)
(* its result rows hold every (name, ttl, type, rdata) tuple of the zone   *)
(* file's records and of the remote records exactly once and no other      *)
(* tuple, and the status of a row is 'matching' when the tuple is in both, *)
(* 'missing' when it is in the zone file only, 'difference' when it is in  *)
(* the remote records only.                                                *)
(***************************************************************************)

\* compare_zone_ns has just compared `domain`
JustCompared == pc = "compare" /\ out # <<>> /\ Last(out).msg = "from_wapi"

RowTuple(r) == <<r.name, r.ttl, r.type, r.rdata>>

RowsOfDomain == SelectSeq(results, LAMBDA r : r.domain = domain)

C12_DiffCompleteness ==
    JustCompared =>
        LET L    == {ZoneTuple(zone_records[i]) : i \in 1..Len(zone_records)}
            R    == {wapi_records[i] : i \in 1..Len(wapi_records)}
            rs   == RowsOfDomain
        IN  /\ \A t \in L \cup R :
                  Cardinality({i \in 1..Len(rs) : RowTuple(rs[i]) = t}) = 1
            /\ \A i \in 1..Len(rs) :
                  /\ RowTuple(rs[i]) \in L \cup R
                  /\ rs[i].status \in {"matching", "missing", "difference"}
                  /\ rs[i].status = "matching" <=>
                        (RowTuple(rs[i]) \in L /\ RowTuple(rs[i]) \in R)
                  /\ rs[i].status = "missing" <=>
                        (RowTuple(rs[i]) \in L /\ RowTuple(rs[i]) \notin R)
                  /\ rs[i].status = "difference" <=>
                        (RowTuple(rs[i]) \notin L /\ RowTuple(rs[i]) \in R)

\* a comparison with a tuple of the zone file only and a tuple of the
\* provider only
C12_Witness ==
    /\ JustCompared
    /\ \E i, j \in 1..Len(results) :
          results[i].status = "missing" /\ results[j].status = "difference"

(***************************************************************************)
(* C13  Parser name resolution.  The records parse_zone_file yields are    *)
(* those of the record lines of the file, in order, and the name of each   *)
(* is resolved against the working origin of its line: the value of the    *)
(* latest origin directive above it, without trailing dot, or the stem of  *)
(* the file name when there is none.  '@' stays '@'; a name with a         *)
(* trailing dot becomes '@' when it is the origin, X when it is X.origin,  *)
(* and the bare dotted name otherwise; a name without trailing dot is      *)
(* unchanged.  An origin directive yields no record.                       *)
(***************************************************************************)

\* compare_zone_ns has just parsed the zone file paths[idx - 1]
JustParsed ==
    pc = "compare" /\ idx > 1 /\ paths[idx - 1].suffix = s_dot_zone

ParsedLines == ReadLines(zone_dir, paths[idx - 1])

IsOriginDirective(l) ==
    StartsWith(Upper(Strip(l)), s_ORIGIN) /\ Len(Split(l)) >= 2

IsRecordLine(l) ==
    /\ ~StartsWith(Strip(l), <<";">>)
    /\ ~StartsWith(Upper(Strip(l)), s_ORIGIN)
    /\ ~StartsWith(Upper(Strip(l)), s_TTL)
    /\ Len(Split(l)) >= 5
    /\ Upper(Split(l)[3]) = s_IN

WorkingOrigin(lines, i, stem) ==
    LET above == {j \in 1..(i - 1) : IsOriginDirective(lines[j])}
    IN  IF above = {} THEN stem
        ELSE LET j == CHOOSE m \in above : \A n \in above : n <= m
             IN  RStripChar(Split(lines[j])[2], ".")

ExpectedName(raw, origin) ==
    IF raw = s_at THEN s_at
    ELSE IF raw # <<>> /\ raw[Len(raw)] = "."
      THEN LET bare == RStripChar(raw, ".")
               cut  == {n \in 0..Len(bare) :
                           bare = SubSeq(bare, 1, n) \o <<".">> \o origin}
           IN  IF bare = origin THEN s_at
               ELSE IF cut # {} THEN SubSeq(bare, 1, CHOOSE n \in cut : TRUE)
               ELSE bare
    ELSE raw

C13_NameResolution ==
    JustParsed =>
        LET lines == ParsedLines
            stem  == paths[idx - 1].stem
            at    == SelectSeq([i \in 1..Len(lines) |-> i],
                               LAMBDA i : IsRecordLine(lines[i]))
        IN  /\ Len(zone_records) = Len(at)
            /\ \A j \in 1..Len(at) :
                  zone_records[j][1] =
                     ExpectedName(Split(lines[at[j]])[1],
                                  WorkingOrigin(lines, at[j], stem))

\* a file with an origin directive above a record line whose name has a
\* trailing dot
C13_Witness ==
    /\ JustParsed
    /\ zone_records # <<>>
    /\ \E i, j \in 1..Len(ParsedLines) :
          /\ i < j
          /\ IsOriginDirective(ParsedLines[i])
          /\ ParsedLines[i] # ZoneHead(paths[idx - 1].stem)[1]
          /\ IsRecordLine(ParsedLines[j])
          /\ EndsWith(Split(ParsedLines[j])[1], <<".">>)

(***************************************************************************)
(* C14  Round trip.  Writing the records parse_zone_file read from a zone  *)
(* file in the format generate_zone_files writes (the origin directive of  *)
(* the same origin, then one line 'name ttl IN type rdata' per record) and *)
(* parsing that text again yields the same set of                          *)
(* (name, ttl, type, rdata) tuples.                                        *)
(***************************************************************************)

\* lines 223 and 229 for a list of parsed records
SerializeRecords(origin, recs) ==
    ZoneHead(origin) \o
      [i \in 1..Len(recs) |->
          WriteRecordLine(recs[i][1], recs[i][2], recs[i][3], recs[i][4])]

C14_RoundTrip ==
    JustParsed =>
        LET stem  == paths[idx - 1].stem
            again == parse_zone_file(stem, SerializeRecords(stem, zone_records))
        IN  {again[i] : i \in 1..Len(again)}
              = {zone_records[i] : i \in 1..Len(zone_records)}

(***************************************************************************)
(* C15  Canonical record form.  Every record compare_zone_ns compares,     *)
(* read from the zone file or from a remote row, has a name that does not  *)
(* end with a dot and an rdata that does not end with a dot, and a remote  *)
(* row with an empty or missing name has the name '@'.                     *)
(***************************************************************************)

C15_CanonicalForm ==
    JustCompared =>
        /\ \A i \in 1..Len(zone_records) :
              /\ ~EndsWith(zone_records[i][1], <<".">>)
              /\ ~EndsWith(zone_records[i][4], <<".">>)
        /\ \A i \in 1..Len(wapi_records) :
              /\ ~EndsWith(wapi_records[i][1].s, <<".">>)
              /\ ~EndsWith(wapi_records[i][4].s, <<".">>)
        /\ Len(rows) = Len(wapi_records) =>
              \A i \in 1..Len(rows) :
                 Get(rows[i], "name", JStr(<<>>)) = JStr(<<>>)
                    => wapi_records[i][1] = JStr(s_at)

(***************************************************************************)
(* C16  Wire-shape equivalence.  For the domain list and for the rows of   *)
(* every domain the provider holds, the answer that carries the entries as *)
(* a list and the answer that carries the same entries in the same order   *)
(* as a map are read alike: sync_zone_records reads the same set           *)
(* dns_domains and the same rows, and compare_zone_ns reads the same rows, *)
(* so that what they compute from them (result rows, create-domain, add    *)
(* and update calls) is the same.                                          *)
(***************************************************************************)

OkWire(code, shape) == [st |-> "ok", code |-> code, shape |-> shape]

C16_WireShapeEquivalence ==
    \A code \in {"int", "str"} :
        /\ DnsDomainsOf(WapiDomainsList(remote, OkWire(code, "flat_list")))
             = DnsDomainsOf(WapiDomainsList(remote, OkWire(code, "flat_map")))
        /\ DnsDomainsOf(WapiDomainsList(remote, OkWire(code, "domain_list")))
             = DnsDomainsOf(WapiDomainsList(remote, OkWire(code, "domain_map")))
        /\ \A d \in DomainNames :
              /\ RowsOf(WapiRowsList(remote, d, OkWire(code, "row_list")))
                   = RowsOf(WapiRowsList(remote, d, OkWire(code, "row_map")))
              /\ CompareRowsOf(WapiRowsList(remote, d, OkWire(code, "row_list")))
                   = CompareRowsOf(WapiRowsList(remote, d, OkWire(code, "row_map")))

(***************************************************************************)
(* C17  An unexpected payload is never fatal.  When dns-rows-list answers  *)
(* with code 1000 and a payload whose record collection, or an entry of    *)
(* it, is neither a list nor a map where one is expected, or with no       *)
(* payload at all, sync_zone_records goes on with an empty set of remote   *)
(* records for that domain: the run is not terminated.                     *)
(***************************************************************************)

UnexpectedPayload ==
    /\ calls # <<>>
    /\ Last(calls).cmd = "dns-rows-list"
    /\ Last(calls).ok
    /\ ~Last(calls).wellformed

C17_UnexpectedPayloadNotFatal ==
    UnexpectedPayload => (pc # "crashed" /\ wapi_map = <<>>)

(***************************************************************************)
(* C18  Differ and Synchronizer agree.  When the records of the zone file  *)
(* of a listed domain and the rows fetched for it are such that            *)
(* compare_zone_ns classifies every tuple as 'matching', the run of        *)
(* sync_zone_records issues no dns-row-add and no dns-row-update for that  *)
(* domain, also when several records share one (name, type) key and stand  *)
(* in different orders in the file and at the provider.                    *)
(***************************************************************************)

AllMatching(statuses) == \A t \in DOMAIN statuses : statuses[t] = "matching"

C18_DifferSyncAgreement ==
    (/\ DomainReconciled
     /\ JStr(domain) \in dns_domains
     /\ AllMatching(Classify(LocalRecords, CompareRecords(rows).records)))
        => /\ OpsFor(domain, "dns-row-add") = <<>>
           /\ OpsFor(domain, "dns-row-update") = <<>>

(***************************************************************************)
(* C19  Generate, then compare.  When the zone file of a domain is the one *)
(* generate_zone_files writes from the rows the provider holds, and        *)
(* compare_zone_ns then compares it with those same rows, every tuple of   *)
(* the domain is classified 'matching': no row is lost or altered by being *)
(* written to the zone file and parsed back.                               *)
(***************************************************************************)

\* the zone file just compared is the one generated from the rows held, and
\* the comparison has read those rows
ComparedGenerated ==
    /\ JustCompared
    /\ remote.rows[domain] # <<>>
    /\ rows = remote.rows[domain]
    /\ ParsedLines = WriteZoneText(domain, remote.rows[domain])

C19_GenerateThenCompare ==
    ComparedGenerated =>
        /\ RowsOfDomain # <<>>
        /\ \A i \in 1..Len(RowsOfDomain) : RowsOfDomain[i].status = "matching"

=============================================================================
